---- MODULE Spec2Model ----
(***************************************************************************)
(* A model of the relayer's VAnchor leaves handler                         *)
(* (event-watchers/evm/src/vanchor/vanchor_leaves_handler.rs): the         *)
(* in-memory sparse Merkle tree behind a tokio Mutex, the leaf store, and  *)
(* the contract whose is_known_root the handler queries; of the event      *)
(* watcher and the transaction queue that run as tasks; of the supervisor  *)
(* that spawns them (src/service.rs); and of the range query of the leaves *)
(* API (crates/relayer-handlers/src/routes/mod.rs).                        *)
(***************************************************************************)
EXTENDS Integers, Sequences, FiniteSets, TLC

\* ------------------------------------------------------------------ sizes

\* Depth N of SparseMerkleTree<Bn254Fr, Poseidon, N> (30 in the source,
\* scaled down: the tree has 2^TreeDepth leaf positions).
TreeDepth == 2

\* Order of the scalar field Bn254Fr (scaled down); commitments are reduced
\* modulo it by from_be_bytes_mod_order.
FieldOrder == 3

\* The empty_leaf the handler is built with, as a field element.
EmptyLeaf == 0

\* Largest leaf_index an event carries (never beyond the tree).
MaxLeafIndex == 2

\* Number of handle_event calls a behaviour makes.
MaxCalls == 3

\* Number of tasks that may call handle_event on the same handler.
NumCallers == 2

Callers == 1..NumCallers

Max(S) == CHOOSE x \in S : \A y \in S : y <= x
Min(S) == CHOOSE x \in S : \A y \in S : x <= y
LeafIndices == {i \in 0..MaxLeafIndex : i < 2^TreeDepth}

\* The commitment bytes an event may carry, as big-endian integers: the
\* canonical non-empty field elements, and one value that is not canonical.
Commitments == (1..(FieldOrder - 1)) \cup {FieldOrder + 1}

\* ------------------------------------------------------- the Merkle tree
\* SparseMerkleTree keeps `tree: BTreeMap<u64, F>`: node index -> value, the
\* root at index 0 and leaf i at index LastLevelIndex + i.  A map is a
\* function whose domain is the set of keys present.

EmptyMap == [i \in {} |-> 0]

\* Poseidon::hash_two, taken collision free: the hash of a pair is the pair.
HashTwo(l, r) == <<l, r>>

\* The bytes taken as they are, with no reduction.
FromBeBytesModOrder_Unreduced(bytes) == bytes

\* Bn254Fr::from_be_bytes_mod_order: any bytes give a field element.
FromBeBytesModOrder(bytes) == bytes % FieldOrder

\* gen_empty_hashes: the hash of an all-empty subtree of the given height.
RECURSIVE EmptyHashes(_)
EmptyHashes(level) ==
    IF level = 0 THEN EmptyLeaf
    ELSE HashTwo(EmptyHashes(level - 1), EmptyHashes(level - 1))

LastLevelIndex == 2^TreeDepth - 1
Parent(i) == (i - 1) \div 2
LeftChild(i) == 2 * i + 1
RightChild(i) == 2 * i + 2

GetOr(map, k, default) == IF k \in DOMAIN map THEN map[k] ELSE default

\* The level loop of insert_batch: rehash the nodes `idxs` of one level from
\* their children, then go on with their parents.
RECURSIVE RehashLevels(_, _, _)
RehashLevels(tree, idxs, level) ==
    IF level = TreeDepth \/ idxs = {} THEN tree
    ELSE LET hashed == [i \in idxs |->
                          HashTwo(GetOr(tree, LeftChild(i), EmptyHashes(level)),
                                  GetOr(tree, RightChild(i), EmptyHashes(level)))]
             next == [i \in DOMAIN tree \cup idxs |->
                          IF i \in idxs THEN hashed[i] ELSE tree[i]]
         IN RehashLevels(next, {Parent(i) : i \in idxs \ {0}}, level + 1)

\* SparseMerkleTree::insert_batch(leaves: index -> field element)
InsertBatch(tree, batch) ==
    LET placed == [i \in DOMAIN tree \cup {LastLevelIndex + k : k \in DOMAIN batch} |->
                      IF i - LastLevelIndex \in DOMAIN batch
                      THEN batch[i - LastLevelIndex] ELSE tree[i]]
    IN RehashLevels(placed, {Parent(LastLevelIndex + k) : k \in DOMAIN batch}, 0)

\* SparseMerkleTree::new(leaves, hasher, empty_leaf)
NewTree(batch) == InsertBatch(EmptyMap, batch)

\* SparseMerkleTree::root
Root(tree) == GetOr(tree, 0, EmptyHashes(TreeDepth))

\* The loop of VAnchorLeavesHandler::new: every stored leaf, reduced to a
\* field element, keyed by its index.
LoadBatch(stored) == [i \in DOMAIN stored |-> FromBeBytesModOrder(stored[i])]

\* VAnchorLeavesHandler::new: the tree built from the leaves of the store.
NewHandlerTree(stored) == NewTree(LoadBatch(stored))

\* ----------------------------------------------------------- the contract
\* The VAnchor contract the wrapper points at.  A deposit inserts two leaves
\* at once: deposit k puts leaves 2k and 2k+1 in the contract's tree, in
\* block k + 1, and the contract remembers the root after every deposit
\* (and the root of the empty tree it started with).

\* The commitment the contract holds at leaf i.
ChainLeaf(i) == FieldOrder - 2

\* The block of the deposit that inserted leaf i: log.block_number of the
\* NewCommitment event of that leaf.
EventBlock(i) == (i \div 2) + 1

\* Number of deposits the contract has seen by the end of `block`.
DepositsAt(block) ==
    IF block < 2^(TreeDepth - 1) THEN block ELSE 2^(TreeDepth - 1)

\* The contract's root after its first k deposits.
ChainRoot(k) == Root(NewTree([i \in 0..(2 * k - 1) |-> ChainLeaf(i)]))

\* contract.is_known_root(root).block(block).call(), when the call succeeds.
IsKnownRoot(root, block) == \E k \in 0..DepositsAt(block) : root = ChainRoot(k)

\* ------------------------------------------------------------------ state

VARIABLES
    mt,                \* self.mt: the node map of the in-memory tree
    holders,           \* the callers holding the guard of self.mt
    leaves,            \* store: leaf index -> commitment bytes of the resource
    lastDepositBlock,  \* store: <<block>>, or <<>> while none was written
    storedEvents,      \* store: the event records store_event has written
    pc,                \* per caller: "idle", "locking" or "querying"
    ev,                \* per caller: <<event>> of the call it is in
    snap,              \* per caller: <<mt_snapshot>> of the call it is in
    rootSent,          \* per caller: <<root>> passed to is_known_root
    last,              \* <<the call that returned last>>: its event, result and
                       \* is_known_root reply, the tree and the store as they
                       \* were when it took the lock, and its store writes
    prev,              \* <<the call that returned before it>>
    acceptedBlocks,    \* the block numbers of the events accepted so far
    calls,             \* the number of calls made so far
    cursor,            \* watcher: last_processed_block of the store
    wpc,               \* watcher: "Idle", "Dispatching", "Handling" or "Backoff"
    batch,             \* watcher: the fetched events still to dispatch
    failed,            \* the events whose last handler call failed
    rejected,          \* the odd events rejected with InvalidMerkleRoot since
                       \* the last accepted event
    queue,             \* tx queue: the payloads in the store's queue, head first
    enq,               \* tx queue: the number of payloads enqueued so far
    qpc,               \* tx queue: the step of run(), or "Stopped"
    attempts,          \* tx queue: the attempt counter of the head payload
    submissions,       \* tx queue: the payloads handed to the chain client, in
                       \* order (a payload handed over again is listed once)
    pending,           \* chain: the payloads submitted and not yet included
    confirmed,         \* chain: the payloads confirmed on-chain
    poison,            \* tx queue: the payloads classified as poison
    qshutdown,         \* tx queue: the shutdown signal was broadcast
    dropped,           \* tx queue: <<step run() was at when its task ended>>
    crashes,           \* tx queue: the number of crashes so far
    config,            \* supervisor: ctx.config, the chains and what they hold
    ignite,            \* supervisor: where ignite is, or how it returned
    tasks,             \* supervisor: the tasks spawned so far, in spawn order
    shutdown,          \* supervisor: the shutdown signal was broadcast
    query,             \* range query: the OptionalRangeQuery deserialized
    range,             \* range query: <<the Range<u32> it converts to>>
    canHandle,         \* <<event, answer>> of the last can_handle_events call
    built              \* <<result>> of VAnchorLeavesHandler::new, <<>> before

handlerVars == <<mt, holders, leaves, lastDepositBlock, storedEvents,
                 pc, ev, snap, rootSent, last, prev, acceptedBlocks, calls>>
watcherVars == <<cursor, wpc, batch, failed>>
redeliveryVars == <<rejected>>
queueVars == <<queue, enq, qpc, attempts, submissions, pending, confirmed,
               poison, qshutdown, dropped, crashes>>
serviceVars == <<config, ignite, tasks, shutdown>>
rangeVars == <<query, range>>
dispatchVars == <<canHandle>>
constructionVars == <<built>>
vars == <<handlerVars, watcherVars, redeliveryVars, queueVars, serviceVars,
          rangeVars, dispatchVars, constructionVars>>

\* VAnchorContractEvents::NewCommitmentFilter with the LogMeta of its log:
\* any leaf of the contract, with the commitment of the contract or another.
NewCommitmentEvents ==
    {[leaf_index |-> i, commitment |-> c, block |-> EventBlock(i)] :
        i \in LeafIndices, c \in Commitments}

Ok == <<"Ok">>
InvalidMerkleRootError(leaf_index) == <<"InvalidMerkleRootError", leaf_index>>
RpcError == <<"ContractError">>
StoreError == <<"StoreError">>
SerdeError == <<"SerdeJsonError">>

\* serde_json::to_vec(&event_data): the record of an event in the store.
EventRecord(e) == [leaf_index |-> e.leaf_index, commitment |-> e.commitment]

\* The state after VAnchorLeavesHandler::new on an empty store.
InitHandler ==
    /\ leaves = EmptyMap
    /\ lastDepositBlock = <<>>
    /\ storedEvents = {}
    /\ mt = NewHandlerTree(EmptyMap)
    /\ holders = {}
    /\ pc = [p \in Callers |-> "idle"]
    /\ ev = [p \in Callers |-> <<>>]
    /\ snap = [p \in Callers |-> <<>>]
    /\ rootSent = [p \in Callers |-> <<>>]
    /\ last = <<>>
    /\ prev = <<>>
    /\ acceptedBlocks = {}
    /\ calls = 0

\* What a store may hold as the 32 bytes of a leaf: the values below the
\* field order and as many at or above it.
StoredBytes == 0..(2 * FieldOrder - 1)
Stores == UNION {[ix -> StoredBytes] : ix \in SUBSET LeafIndices}

\* A store that holds leaves of the resource, and no handler on it yet.
InitConstruction ==
    /\ leaves \in Stores
    /\ lastDepositBlock = <<>>
    /\ storedEvents = {}
    /\ mt = EmptyMap
    /\ holders = {}
    /\ pc = [p \in Callers |-> "idle"]
    /\ ev = [p \in Callers |-> <<>>]
    /\ snap = [p \in Callers |-> <<>>]
    /\ rootSent = [p \in Callers |-> <<>>]
    /\ last = <<>>
    /\ prev = <<>>
    /\ acceptedBlocks = {}
    /\ calls = 0

\* Line 75: storage.get_leaves(history_store_key)? fails, and new returns
\* the error of the store.
NewFails ==
    /\ built = <<>>
    /\ built' = <<StoreError>>
    /\ UNCHANGED handlerVars

\* Lines 75-98: the leaves are read and reduced, the tree is built from
\* them and new returns Ok(Self { .. }).
NewBuilds ==
    /\ built = <<>>
    /\ built' = <<Ok>>
    /\ mt' = NewHandlerTree(leaves)
    /\ UNCHANGED <<holders, leaves, lastDepositBlock, storedEvents, pc, ev,
                   snap, rootSent, last, prev, acceptedBlocks, calls>>

\* --------------------------------------------------------------- handler

\* A lock that never makes a caller wait.
MutexFree_NoExclusion(h) == TRUE

\* tokio::sync::Mutex::lock resolves only while no guard is alive.
MutexFree(h) == h = {}

\* The parity test left out: every leaf is checked against the contract.
NeedsRootCheck_Always(leaf_index) == TRUE

\* The parity test inverted: even leaves checked, odd ones not.
NeedsRootCheck_Inverted(leaf_index) == leaf_index % 2 = 0

\* `leaf_index % 2 == 0` is accepted without asking the contract.
NeedsRootCheck(leaf_index) == leaf_index % 2 # 0

\* The rollback left out: the tree stays as the insertion made it.
RestoreSnapshot_Skipped(tree, snapshot) == tree

\* `mt.tree = mt_snapshot`
RestoreSnapshot(tree, snapshot) == snapshot

\* store.insert_leaves_and_last_deposit_block_number(key, [(index, bytes)], block):
\* the leaf and the block number are written together.
InsertLeaves(stored, e) ==
    [i \in DOMAIN stored \cup {e.leaf_index} |->
        IF i = e.leaf_index THEN e.commitment ELSE stored[i]]
InsertLastDepositBlock(old, e) == <<e.block>>

\* Line 130: handle_event is called and waits for the lock of the tree.
\* The event the call carries is first read at line 134, with the lock
\* held, so the model draws it there.
Call(p) ==
    /\ pc[p] = "idle"
    /\ calls < MaxCalls
    /\ calls' = calls + 1
    /\ pc' = [pc EXCEPT ![p] = "locking"]
    /\ UNCHANGED <<mt, holders, leaves, lastDepositBlock, storedEvents,
                   ev, snap, rootSent, last, prev, acceptedBlocks>>

\* The end of a call: the guard and the locals are dropped and the result
\* handed back.
Return(p, e, snapshot, answer, result, written) ==
    /\ pc' = [pc EXCEPT ![p] = "idle"]
    /\ holders' = holders \ {p}
    /\ ev' = [ev EXCEPT ![p] = <<>>]
    /\ snap' = [snap EXCEPT ![p] = <<>>]
    /\ rootSent' = [rootSent EXCEPT ![p] = <<>>]
    /\ last' = <<[ev |-> e, res |-> result, reply |-> answer, snap |-> snapshot,
                  leaves |-> leaves, block |-> lastDepositBlock,
                  events |-> storedEvents, writes |-> written]>>
    /\ prev' = last
    /\ acceptedBlocks' = IF result = Ok THEN acceptedBlocks \cup {e.block}
                         ELSE acceptedBlocks

\* Step 2 of handle_event, lines 187-193: the store writes of an accepted
\* event; each of the three fallible operations may fail.
Persist(p, e, snapshot, answer, fault) ==
    IF fault = "insert"
    THEN /\ UNCHANGED <<leaves, lastDepositBlock, storedEvents>>
         /\ Return(p, e, snapshot, answer, StoreError, {})
    ELSE /\ leaves' = InsertLeaves(leaves, e)
         /\ lastDepositBlock' = InsertLastDepositBlock(lastDepositBlock, e)
         /\ IF fault = "none"
            THEN /\ storedEvents' = storedEvents \cup {EventRecord(e)}
                 /\ Return(p, e, snapshot, answer, Ok, {"leaf", "block", "event"})
            ELSE /\ UNCHANGED storedEvents
                 /\ Return(p, e, snapshot, answer,
                           IF fault = "serde" THEN SerdeError ELSE StoreError,
                           {"leaf", "block"})

Faults == {"none", "insert", "serde", "store_event"}

\* Lines 130-167: the lock is taken, the tree snapshotted and the leaf
\* inserted; an even leaf goes on to the store, an odd one asks the contract.
Acquire(p, e) ==
    /\ pc[p] = "locking"
    /\ MutexFree(holders)
    /\ LET leaf == FromBeBytesModOrder(e.commitment)
           inserted == InsertBatch(mt, [i \in {e.leaf_index} |-> leaf])
       IN /\ mt' = inserted
          /\ IF NeedsRootCheck(e.leaf_index)
             THEN /\ pc' = [pc EXCEPT ![p] = "querying"]
                  /\ holders' = holders \cup {p}
                  /\ ev' = [ev EXCEPT ![p] = <<e>>]
                  /\ snap' = [snap EXCEPT ![p] = <<mt>>]
                  /\ rootSent' = [rootSent EXCEPT ![p] = <<Root(inserted)>>]
                  /\ UNCHANGED <<leaves, lastDepositBlock, storedEvents,
                                 last, prev, acceptedBlocks>>
             ELSE \E fault \in Faults : Persist(p, e, mt, "none", fault)
    /\ UNCHANGED calls

\* Line 167 fails: `.await?` returns the error of the call.
QueryFails(p) ==
    /\ pc[p] = "querying"
    /\ Return(p, ev[p][1], snap[p][1], "error", RpcError, {})
    /\ UNCHANGED <<mt, leaves, lastDepositBlock, storedEvents, calls>>

\* Lines 167-193: the contract answers.
QueryAnswers(p) ==
    /\ pc[p] = "querying"
    /\ LET e == ev[p][1]
           is_known_root == IsKnownRoot(rootSent[p][1], e.block)
       IN IF ~is_known_root
          THEN /\ mt' = RestoreSnapshot(mt, snap[p][1])
               /\ Return(p, e, snap[p][1], "false",
                         InvalidMerkleRootError(e.leaf_index), {})
               /\ UNCHANGED <<leaves, lastDepositBlock, storedEvents>>
          ELSE /\ UNCHANGED mt
               /\ \E fault \in Faults : Persist(p, e, snap[p][1], "true", fault)
    /\ UNCHANGED calls

\* The variants of VAnchorContractEvents that handle_event only logs, with
\* the block of their log.
OtherVariants ==
    {"EdgeAdditionFilter", "EdgeUpdateFilter", "NewNullifierFilter",
     "InsertionFilter", "Unknown"}
OtherEvents ==
    [variant : OtherVariants, block : {EventBlock(i) : i \in LeafIndices}]
VAnchorContractEvents == NewCommitmentEvents \cup OtherEvents
Variant(e) ==
    IF "variant" \in DOMAIN e THEN e.variant ELSE "NewCommitmentFilter"

\* Every event claimed by the handler.
CanHandleEvents_Always(e) == TRUE

\* `matches!(events, NewCommitmentFilter(_))`
CanHandleEvents(e) == Variant(e) = "NewCommitmentFilter"

\* Lines 110-118: can_handle_events answers for an event; it reads neither
\* the tree nor the store.
CanHandle ==
    /\ \E e \in VAnchorContractEvents :
          canHandle' = <<Variant(e), CanHandleEvents(e)>>
    /\ UNCHANGED handlerVars

\* Lines 130-134 and 208-245: the lock is taken and the tree snapshotted as
\* for any event; the arm of the variant logs and the call returns Ok(()).
LogOnly(p, e) ==
    /\ pc[p] = "locking"
    /\ MutexFree(holders)
    /\ Return(p, e, mt, "none", Ok, {})
    /\ UNCHANGED <<mt, leaves, lastDepositBlock, storedEvents, calls>>

\* ---------------------------------------------------------------- watcher
\* The event watcher that owns a handler (section 4.2 of the specification):
\* it fetches the logs after its cursor, hands every event it has not seen
\* to the handler in log order, and moves the cursor to the block of every
\* event the handler accepted.

\* The cursor of a fresh store: the block before the first deposit.
DeployedAt == EventBlock(0) - 1

\* The last block of the chain that holds an event.
ChainHead == EventBlock(Max(LeafIndices))

\* The NewCommitment event the contract emitted for leaf i.
ChainEvent(i) ==
    [leaf_index |-> i, commitment |-> ChainLeaf(i), block |-> EventBlock(i)]

\* Step 4: the events of the blocks from..to, in (block, log index) order.
FetchLogs(from, to) ==
    LET idx == {i \in LeafIndices : from <= EventBlock(i) /\ EventBlock(i) <= to}
    IN [k \in 1..Cardinality(idx) |-> ChainEvent(Min(idx) + k - 1)]

InitWatcher ==
    /\ cursor = DeployedAt
    /\ wpc = "Idle"
    /\ batch = <<>>
    /\ failed = {}

\* Steps 1-4: read the cursor, pick the end of the window and fetch it; with
\* nothing beyond the cursor the watcher sleeps.
WatcherFetch ==
    /\ wpc = "Idle"
    /\ \E end \in (cursor + 1)..ChainHead :
          batch' = FetchLogs(cursor + 1, end)
    /\ wpc' = "Dispatching"
    /\ UNCHANGED <<cursor, failed, handlerVars>>

\* Step 5: an event whose hash is in the store is skipped.
WatcherSkipSeen ==
    /\ wpc = "Dispatching"
    /\ batch # <<>>
    /\ EventRecord(Head(batch)) \in storedEvents
    /\ batch' = Tail(batch)
    /\ UNCHANGED <<cursor, wpc, failed, handlerVars>>

\* Step 5: the next event is handed to the handler.
WatcherDispatch(p) ==
    /\ wpc = "Dispatching"
    /\ batch # <<>>
    /\ EventRecord(Head(batch)) \notin storedEvents
    /\ Call(p)
    /\ wpc' = "Handling"
    /\ UNCHANGED <<cursor, batch, failed>>

\* The handler runs on the event handed to it.
WatcherHandle(p) ==
    /\ wpc = "Handling"
    /\ \/ Acquire(p, Head(batch))
       \/ QueryFails(p)
       \/ QueryAnswers(p)
    /\ UNCHANGED watcherVars

\* Step 6, success: the event hash is recorded and the cursor set to the
\* block of the event.
WatcherAdvance(p) ==
    /\ wpc = "Handling"
    /\ pc[p] = "idle"
    /\ last[1].res = Ok
    /\ storedEvents' = storedEvents \cup {EventRecord(Head(batch))}
    /\ cursor' = Head(batch).block
    /\ failed' = failed \ {Head(batch)}
    /\ batch' = Tail(batch)
    /\ wpc' = "Dispatching"
    /\ UNCHANGED <<mt, holders, leaves, lastDepositBlock, pc, ev, snap,
                   rootSent, last, prev, acceptedBlocks, calls>>

\* Step 6, failure: the cursor stays and the watcher backs off.
WatcherBackoff(p) ==
    /\ wpc = "Handling"
    /\ pc[p] = "idle"
    /\ last[1].res # Ok
    /\ failed' = failed \cup {Head(batch)}
    /\ batch' = <<>>
    /\ wpc' = "Backoff"
    /\ UNCHANGED <<cursor, handlerVars>>

\* The window is done, or the backoff deadline has passed: back to step 1.
WatcherIdle ==
    /\ \/ wpc = "Dispatching" /\ batch = <<>>
       \/ wpc = "Backoff"
    /\ wpc' = "Idle"
    /\ UNCHANGED <<cursor, batch, failed, handlerVars>>

\* The process is killed and started again: the store stays, the handler is
\* built anew by VAnchorLeavesHandler::new and the watcher starts at step 1.
Restart ==
    /\ mt' = NewHandlerTree(leaves)
    /\ holders' = {}
    /\ pc' = [p \in Callers |-> "idle"]
    /\ ev' = [p \in Callers |-> <<>>]
    /\ snap' = [p \in Callers |-> <<>>]
    /\ rootSent' = [p \in Callers |-> <<>>]
    /\ wpc' = "Idle"
    /\ batch' = <<>>
    /\ UNCHANGED <<leaves, lastDepositBlock, storedEvents, last, prev,
                   acceptedBlocks, calls, cursor, failed>>


\* ------------------------------------------------------ transaction queue
\* The transaction queue of one chain (section 4.3 of the specification),
\* run by the task start_tx_queue spawns: the payloads of one queue key are
\* 1, 2, ... in the order they were enqueued.

\* Number of payloads the producers enqueue.
MaxPayloads == 3

\* The configured attempt ceiling: a payload whose attempts reach it is poison.
MaxAttempts == 2

\* Number of crashes (kill and restart of the process) of a behaviour.
MaxCrashes == 1

\* An enqueue that puts the payload before the ones waiting.
EnqueueItem_AtHead(q, p) == <<p>> \o q

\* QueueStore::enqueue_item(&store, tx_key, tx): the payload joins the tail.
EnqueueItem(q, p) == Append(q, p)

\* Taking the next payload removes it from the store.
TakeNext_Dequeued(q) == Tail(q)

\* Step 1: the next payload is read; it stays in the store until it is
\* confirmed or poison.
TakeNext(q) == q

\* The store's dequeue of payload p.
RemoveItem(q, p) == SelectSeq(q, LAMBDA x : x # p)

\* The payload whose submission is in flight: the one submitted last.
InFlight == submissions[Len(submissions)]

\* The record of the submissions: a payload submitted again right after
\* itself (a retry, a replay after a crash) is not listed twice.
Submitted(history, p) ==
    IF history # <<>> /\ history[Len(history)] = p THEN history
    ELSE Append(history, p)

InitQueue ==
    /\ queue = <<>>
    /\ enq = 0
    /\ qpc = "Waiting"
    /\ attempts = 0
    /\ submissions = <<>>
    /\ pending = {}
    /\ confirmed = {}
    /\ poison = {}
    /\ qshutdown = FALSE
    /\ dropped = <<>>
    /\ crashes = 0

\* A producer calls store.enqueue(queue_key, payload).
Enqueue ==
    /\ enq < MaxPayloads
    /\ enq' = enq + 1
    /\ queue' = EnqueueItem(queue, enq + 1)
    /\ UNCHANGED <<qpc, attempts, submissions, pending, confirmed, poison,
                   qshutdown, dropped, crashes>>

\* Steps 1-3: the next payload is taken and handed to the chain client.
QueueSubmit ==
    /\ qpc = "Waiting"
    /\ queue # <<>>
    /\ submissions' = Submitted(submissions, Head(queue))
    /\ queue' = TakeNext(queue)
    /\ qpc' = "Submitting"
    /\ UNCHANGED <<enq, attempts, pending, confirmed, poison, qshutdown,
                   dropped, crashes>>

\* The retry policy of steps 3 and 4: the attempt counter goes up; below the
\* ceiling the payload is tried again, at the ceiling it is poison and
\* leaves the queue for the dead-letter area.
QueueRetry ==
    IF attempts + 1 < MaxAttempts
    THEN /\ attempts' = attempts + 1
         /\ UNCHANGED <<queue, poison>>
    ELSE /\ attempts' = 0
         /\ poison' = poison \cup {InFlight}
         /\ queue' = RemoveItem(queue, InFlight)

\* Step 3: the submission fails with a transient error.
SubmitFails ==
    /\ qpc = "Submitting"
    /\ QueueRetry
    /\ qpc' = "Waiting"
    /\ UNCHANGED <<enq, submissions, pending, confirmed, qshutdown, dropped,
                   crashes>>

\* Step 4: the submission succeeds; the queue awaits the confirmation.
SubmitSucceeds ==
    /\ qpc = "Submitting"
    /\ pending' = pending \cup {InFlight}
    /\ qpc' = "Confirming"
    /\ UNCHANGED <<queue, enq, attempts, submissions, confirmed, poison,
                   qshutdown, dropped, crashes>>

\* The chain includes a submitted payload.
ChainConfirms ==
    /\ \E p \in pending :
          /\ confirmed' = confirmed \cup {p}
          /\ pending' = pending \ {p}
    /\ UNCHANGED <<queue, enq, qpc, attempts, submissions, poison, qshutdown,
                   dropped, crashes>>

\* Step 4: the confirmation arrives; the payload is dequeued.
ConfirmArrives ==
    /\ qpc = "Confirming"
    /\ InFlight \in confirmed
    /\ queue' = RemoveItem(queue, InFlight)
    /\ attempts' = 0
    /\ qpc' = "Waiting"
    /\ UNCHANGED <<enq, submissions, pending, confirmed, poison, qshutdown,
                   dropped, crashes>>

\* Step 4: the confirmation times out; the retry policy applies.
ConfirmTimesOut ==
    /\ qpc = "Confirming"
    /\ QueueRetry
    /\ qpc' = "Waiting"
    /\ UNCHANGED <<enq, submissions, pending, confirmed, qshutdown, dropped,
                   crashes>>

\* The process is killed and started again: the store keeps the queue, the
\* task starts at step 1.
QueueCrash ==
    /\ crashes < MaxCrashes
    /\ qpc # "Stopped"
    /\ ~qshutdown
    /\ crashes' = crashes + 1
    /\ qpc' = "Waiting"
    /\ attempts' = 0
    /\ UNCHANGED <<queue, enq, submissions, pending, confirmed, poison,
                   qshutdown, dropped>>

\* ctx.shutdown(): the signal reaches the receiver of the task.
QueueShutdownSignal ==
    /\ ~qshutdown
    /\ qshutdown' = TRUE
    /\ UNCHANGED <<queue, enq, qpc, attempts, submissions, pending, confirmed,
                   poison, dropped, crashes>>

\* start_tx_queue, lines 294-307: `shutdown_signal.recv()` resolves and the
\* select! ends the task, dropping the future of tx_queue.run() at the await
\* it is suspended in.
QueueTaskShutdownBranch ==
    /\ qshutdown
    /\ qpc # "Stopped"
    /\ dropped' = <<qpc>>
    /\ qpc' = "Stopped"
    /\ UNCHANGED <<queue, enq, attempts, submissions, pending, confirmed,
                   poison, qshutdown, crashes>>

\* Step 5: run() sees the shutdown between two items and returns; the
\* select! ends the task in its first branch.
QueueRunReturns ==
    /\ qshutdown
    /\ qpc = "Waiting"
    /\ dropped' = <<"Returned">>
    /\ qpc' = "Stopped"
    /\ UNCHANGED <<queue, enq, attempts, submissions, pending, confirmed,
                   poison, qshutdown, crashes>>

\* -------------------------------------------------------------- supervisor
\* service::ignite and the tasks it spawns (src/service.rs).  The chains of
\* the configuration are 1..NumChains; a chain is an entry of ctx.config.evm
\* or of ctx.config.substrate.  ignite goes through the entries of
\* ctx.config.evm first and through those of ctx.config.substrate next,
\* here each in the order of the chain numbers.

\* Number of chains in the configuration.
NumChains == 2

Chains == 1..NumChains

\* Contract::Tornado and Contract::AnchorOverDKG carry
\* events_watcher.enabled; Contract::GovernanceBravoDelegate has no watcher.
Contracts ==
    {[kind |-> k, events_watcher |-> b] :
        k \in {"Tornado", "AnchorOverDKG"}, b \in BOOLEAN}
    \cup {[kind |-> "GovernanceBravoDelegate", events_watcher |-> FALSE]}

\* Pallet::DKGProposalHandler carries events_watcher.enabled.
Pallets ==
    {[kind |-> "DKGProposalHandler", events_watcher |-> b] : b \in BOOLEAN}
    \cup {[kind |-> "DKGProposals", events_watcher |-> FALSE]}

\* chain_config.contracts / node_config.pallets: none or one item.
ItemLists(items) == {<<>>} \cup {<<i>> : i \in items}

\* An entry of ctx.config.evm.
EvmConfigs ==
    [family : {"evm"}, enabled : BOOLEAN, runtime : {"none"},
     items : ItemLists(Contracts)]

\* An entry of ctx.config.substrate.
SubstrateConfigs ==
    [family : {"substrate"}, enabled : BOOLEAN,
     runtime : {"Dkg", "WebbProtocol"}, items : ItemLists(Pallets)]

Configs == [Chains -> EvmConfigs \cup SubstrateConfigs]

\* The chains of one family after chain c, in iteration order.
NextOf(family, c) == {d \in Chains : d > c /\ config[d].family = family}

\* A spawned task: what it runs, for which chain and item, and where it is:
\* "Idle" (its loop is between two operations), "Busy" (suspended in an
\* operation: a fetch, a handler call, a submission) or "Stopped".
Task(kind, chain, item) ==
    [kind |-> kind, chain |-> chain, item |-> item, state |-> "Idle"]

\* tokio::task::spawn(task)
Spawn(ts, task) == Append(ts, task)

\* start_tornado_events_watcher, lines 187-228
StartTornadoEventsWatcher(ts, chain, item, cfg) ==
    IF ~cfg.events_watcher THEN ts
    ELSE Spawn(ts, Task("TornadoLeavesWatcher", chain, item))

\* start_anchor_over_dkg_events_watcher, lines 230-282, when the provider
\* and the wallet of the DKG node are obtained.
StartAnchorOverDkgEventsWatcher(ts, chain, item, cfg) ==
    IF ~cfg.events_watcher THEN ts
    ELSE Spawn(ts, Task("AnchorWatcherOverDKG", chain, item))

\* start_dkg_proposal_handler, lines 142-185
StartDkgProposalHandler(ts, chain, item, cfg) ==
    IF ~cfg.events_watcher THEN ts
    ELSE Spawn(ts, Task("ProposalHandlerWatcher", chain, item))

\* start_tx_queue, lines 284-312
StartTxQueue(ts, chain) == Spawn(ts, Task("TxQueue", chain, 0))

WatcherKinds ==
    {"TornadoLeavesWatcher", "AnchorWatcherOverDKG", "ProposalHandlerWatcher"}

\* ignite is at the entry `chain` of the `loop` ("evm" or "substrate"),
\* about to look at its item number `item` (0: the entry itself).
At(loop, chain, item) == [at |-> loop, chain |-> chain, item |-> item]
Returned(result) == [at |-> result, chain |-> 0, item |-> 0]

\* A `?` at the entry `chain` returns the error from ignite.
Failed(chain) == [at |-> "Err", chain |-> chain, item |-> 0]

\* The loop over a family starts at its first entry, or is over at once.
Enter(loop, after) ==
    IF NextOf(loop, after) # {} THEN At(loop, Min(NextOf(loop, after)), 0)
    ELSE IF loop = "evm" THEN At("substrate", 0, 0)
    ELSE Returned("Ok")

InitService ==
    /\ config \in Configs
    /\ ignite = At("evm", 0, 0)
    /\ tasks = <<>>
    /\ shutdown = FALSE

\* One loop is entered, or goes on to its next entry.
IgniteAdvance ==
    /\ ignite.at \in {"evm", "substrate"}
    /\ ignite.chain = 0
    /\ ignite' = Enter(ignite.at, 0)
    /\ UNCHANGED <<config, tasks, shutdown>>

\* Lines 56-58 and 93-95: an entry that is not enabled is passed over.
IgniteSkipDisabled ==
    /\ ignite.at \in {"evm", "substrate"}
    /\ ignite.chain # 0
    /\ ignite.item = 0
    /\ ~config[ignite.chain].enabled
    /\ ignite' = Enter(ignite.at, ignite.chain)
    /\ UNCHANGED <<config, tasks, shutdown>>

\* Line 59: ctx.evm_provider(chain_name).await? for an enabled EVM chain.
IgniteEvmProvider ==
    /\ ignite.at = "evm"
    /\ ignite.chain # 0
    /\ ignite.item = 0
    /\ config[ignite.chain].enabled
    /\ \/ ignite' = At("evm", ignite.chain, 1)
       \/ ignite' = Failed(ignite.chain)
    /\ UNCHANGED <<config, tasks, shutdown>>

\* Lines 66-87: the next contract of the chain.
IgniteContract ==
    /\ ignite.at = "evm"
    /\ ignite.chain # 0
    /\ ignite.item \in 1..Len(config[ignite.chain].items)
    /\ LET c == ignite.chain
           i == ignite.item
           contract == config[c].items[i]
       IN \/ /\ contract.kind = "Tornado"
             /\ tasks' = StartTornadoEventsWatcher(tasks, c, i, contract)
             /\ ignite' = At("evm", c, i + 1)
          \/ /\ contract.kind = "AnchorOverDKG"
             /\ tasks' = StartAnchorOverDkgEventsWatcher(tasks, c, i, contract)
             /\ ignite' = At("evm", c, i + 1)
          \/ \* lines 249-252: the provider or the wallet of the DKG node fails
             /\ contract.kind = "AnchorOverDKG"
             /\ contract.events_watcher
             /\ tasks' = tasks
             /\ ignite' = Failed(c)
          \/ /\ contract.kind = "GovernanceBravoDelegate"
             /\ tasks' = tasks
             /\ ignite' = At("evm", c, i + 1)
    /\ UNCHANGED <<config, shutdown>>

\* The queue started as the first step of the chain.
TxQueueAt_BeforeContracts(c) == 1

\* Lines 66-89: start_tx_queue comes after the loop over the contracts.
TxQueueAt(c) == Len(config[c].items) + 1

\* Line 89: the transaction queue of the chain, after its contracts.
IgniteTxQueue ==
    /\ ignite.at = "evm"
    /\ ignite.chain # 0
    /\ ignite.item = TxQueueAt(ignite.chain)
    /\ tasks' = StartTxQueue(tasks, ignite.chain)
    /\ ignite' = Enter("evm", ignite.chain)
    /\ UNCHANGED <<config, shutdown>>

\* Lines 96-114 and 134-136: the runtime of an enabled node; for Dkg the
\* provider and the chain identifier are obtained, and either may fail.
IgniteSubstrateNode ==
    /\ ignite.at = "substrate"
    /\ ignite.chain # 0
    /\ ignite.item = 0
    /\ config[ignite.chain].enabled
    /\ IF config[ignite.chain].runtime = "Dkg"
       THEN \/ ignite' = At("substrate", ignite.chain, 1)
            \/ ignite' = Failed(ignite.chain)
       ELSE ignite' = Enter("substrate", ignite.chain)
    /\ UNCHANGED <<config, tasks, shutdown>>

\* Lines 116-132: the next pallet of the node; after the last one the loop
\* goes on.
IgnitePallet ==
    /\ ignite.at = "substrate"
    /\ ignite.item >= 1
    /\ LET c == ignite.chain
           i == ignite.item
       IN IF i <= Len(config[c].items)
          THEN /\ tasks' =
                    IF config[c].items[i].kind = "DKGProposalHandler"
                    THEN StartDkgProposalHandler(tasks, c, i, config[c].items[i])
                    ELSE tasks
               /\ ignite' = At("substrate", c, i + 1)
          ELSE /\ tasks' = tasks
               /\ ignite' = Enter("substrate", c)
    /\ UNCHANGED <<config, shutdown>>

\* A task that only awaits its watcher or queue.
SelectBranches_RunOnly(kind) == {"run"}

\* The futures the select! of a task of this kind awaits: the run() of its
\* watcher or queue, and shutdown_signal.recv().
SelectBranches(kind) == {"run", "shutdown"}

\* The receiver resolves at once, signalled or not.
ShutdownRecv_AtOnce(signalled) == TRUE

\* `shutdown_signal.recv()` resolves once the signal was broadcast.
ShutdownRecv(signalled) == signalled

\* ctx.shutdown(): the signal is broadcast to the receivers handed out; the
\* process signals it once ignite has returned.
Shutdown ==
    /\ ignite.at \in {"Ok", "Err"}
    /\ ~shutdown
    /\ shutdown' = TRUE
    /\ UNCHANGED <<config, ignite, tasks>>

SetState(t, st) == [tasks EXCEPT ![t].state = st]

\* The future a task runs starts an operation and is suspended in it.
TaskBegins(t) ==
    /\ t \in 1..Len(tasks)
    /\ tasks[t].state = "Idle"
    /\ tasks' = SetState(t, "Busy")
    /\ UNCHANGED <<config, ignite, shutdown>>

\* The operation resolves.
TaskResolves(t) ==
    /\ t \in 1..Len(tasks)
    /\ tasks[t].state = "Busy"
    /\ tasks' = SetState(t, "Idle")
    /\ UNCHANGED <<config, ignite, shutdown>>

\* The first branch of the select!: the future of the watcher or of the
\* queue returns, which it does on seeing the shutdown signal between two
\* operations.
TaskReturns(t) ==
    /\ t \in 1..Len(tasks)
    /\ tasks[t].state = "Idle"
    /\ "run" \in SelectBranches(tasks[t].kind)
    /\ shutdown
    /\ tasks' = SetState(t, "Stopped")
    /\ UNCHANGED <<config, ignite, shutdown>>

\* The second branch of the select!: `shutdown_signal.recv()` resolves and
\* the task ends, the other future dropped where it is.
TaskShutdownBranch(t) ==
    /\ t \in 1..Len(tasks)
    /\ tasks[t].state # "Stopped"
    /\ "shutdown" \in SelectBranches(tasks[t].kind)
    /\ ShutdownRecv(shutdown)
    /\ tasks' = SetState(t, "Stopped")
    /\ UNCHANGED <<config, ignite, shutdown>>

\* The most tasks ignite spawns: a watcher and a queue for every chain.
TaskIds == 1..(2 * NumChains)

\* ------------------------------------------------------------ range query
\* OptionalRangeQuery of the leaves API and its conversion to Range<u32>.

\* Width of u32 (32 in the source, scaled down).
U32Bits == 3
U32Max == 2^U32Bits - 1
U32 == 0..U32Max

None == <<>>
Some(v) == <<v>>

default_zero == Some(0)

\* The default of `end` set to zero as well.
default_u32_max_Zero == Some(0)

default_u32_max == Some(U32Max)

\* A field of the query as it is on the wire: left out, null, or a number.
WireFields ==
    {[kind |-> "missing"], [kind |-> "null"]}
        \cup {[kind |-> "value", v |-> x] : x \in U32}

\* serde: a field left out takes its `default`, a null is None.
DeserializeField(field, default) ==
    IF field.kind = "missing" THEN default
    ELSE IF field.kind = "null" THEN None
    ELSE Some(field.v)

\* #[derive(Deserialize)] for OptionalRangeQuery
Deserialize(wire) ==
    [start |-> DeserializeField(wire.start, default_zero),
     end |-> DeserializeField(wire.end, default_u32_max)]

\* Option::or_else
OrElse(opt, f) == IF opt = None THEN f ELSE opt

\* Option::expect
Expect(opt) == opt[1]

\* impl From<OptionalRangeQuery> for core::ops::Range<u32>
RangeFrom(q) ==
    [start |-> Expect(OrElse(q.start, default_zero)),
     end |-> Expect(OrElse(q.end, default_u32_max))]

\* The values the range `start..end` yields, one by one while start < end.
RECURSIVE RangeItems(_)
RangeItems(r) ==
    IF r.start < r.end
    THEN {r.start} \cup RangeItems([r EXCEPT !.start = @ + 1])
    ELSE {}

InitRange ==
    /\ query \in [start : WireFields, end : WireFields]
    /\ range = <<>>

\* The handler of the leaves API turns the query into a range.
Convert ==
    /\ range = <<>>
    /\ range' = <<RangeFrom(Deserialize(query))>>
    /\ UNCHANGED query

\* ---------------------------------------------------------- specifications

\* The parts a specification leaves aside stay as they are here.
RedeliveryIdle == rejected = {}
ServiceIdle ==
    /\ config = <<>>
    /\ ignite = Returned("Idle")
    /\ tasks = <<>>
    /\ shutdown = FALSE
RangeIdle == query = <<>> /\ range = <<>>
DispatchIdle == canHandle = <<>>
ConstructionIdle == built = <<>>
restVars == <<queueVars, serviceVars, rangeVars, dispatchVars, constructionVars>>

\* The handler alone, called by any number of tasks with any events.
Init ==
    /\ InitHandler /\ InitWatcher
    /\ RedeliveryIdle /\ InitQueue /\ ServiceIdle /\ RangeIdle
    /\ DispatchIdle /\ ConstructionIdle

Next ==
    \E p \in Callers :
        \/ Call(p) /\ UNCHANGED <<watcherVars, redeliveryVars, restVars>>
        \/ \E e \in NewCommitmentEvents :
              Acquire(p, e) /\ UNCHANGED <<watcherVars, redeliveryVars, restVars>>
        \/ QueryFails(p) /\ UNCHANGED <<watcherVars, redeliveryVars, restVars>>
        \/ QueryAnswers(p) /\ UNCHANGED <<watcherVars, redeliveryVars, restVars>>

Spec == Init /\ [][Next]_vars

\* The handler under its watcher, which is its only caller.
WatcherTask == Min(Callers)

NextWatcher ==
    \/ WatcherFetch /\ UNCHANGED <<redeliveryVars, restVars>>
    \/ WatcherSkipSeen /\ UNCHANGED <<redeliveryVars, restVars>>
    \/ WatcherDispatch(WatcherTask) /\ UNCHANGED <<redeliveryVars, restVars>>
    \/ WatcherHandle(WatcherTask) /\ UNCHANGED <<redeliveryVars, restVars>>
    \/ WatcherAdvance(WatcherTask) /\ UNCHANGED <<redeliveryVars, restVars>>
    \/ WatcherBackoff(WatcherTask) /\ UNCHANGED <<redeliveryVars, restVars>>
    \/ WatcherIdle /\ UNCHANGED <<redeliveryVars, restVars>>
    \/ Restart /\ UNCHANGED <<redeliveryVars, restVars>>

SpecWatcher == Init /\ [][NextWatcher]_vars

\* The handler called with any events, with the record of the events it
\* rejected since it last accepted one.
TrackRejected ==
    rejected' =
        IF last' = last /\ prev' = prev THEN rejected
        ELSE LET c == last'[1] IN
             IF c.res = Ok THEN {}
             ELSE IF c.res = InvalidMerkleRootError(c.ev.leaf_index)
                  THEN rejected \cup {c.ev}
                  ELSE rejected

NextRedelivery ==
    \E p \in Callers :
        \/ Call(p) /\ TrackRejected /\ UNCHANGED <<watcherVars, restVars>>
        \/ \E e \in NewCommitmentEvents :
              Acquire(p, e) /\ TrackRejected /\ UNCHANGED <<watcherVars, restVars>>
        \/ QueryFails(p) /\ TrackRejected /\ UNCHANGED <<watcherVars, restVars>>
        \/ QueryAnswers(p) /\ TrackRejected /\ UNCHANGED <<watcherVars, restVars>>

SpecRedelivery == Init /\ [][NextRedelivery]_vars

\* The transaction queue of one chain, its producers, the chain and the
\* shutdown signal.
othersOfQueue == <<handlerVars, watcherVars, redeliveryVars, serviceVars, rangeVars,
                   dispatchVars, constructionVars>>

NextQueue ==
    \/ Enqueue /\ UNCHANGED othersOfQueue
    \/ QueueSubmit /\ UNCHANGED othersOfQueue
    \/ SubmitFails /\ UNCHANGED othersOfQueue
    \/ SubmitSucceeds /\ UNCHANGED othersOfQueue
    \/ ChainConfirms /\ UNCHANGED othersOfQueue
    \/ ConfirmArrives /\ UNCHANGED othersOfQueue
    \/ ConfirmTimesOut /\ UNCHANGED othersOfQueue
    \/ QueueCrash /\ UNCHANGED othersOfQueue
    \/ QueueShutdownSignal /\ UNCHANGED othersOfQueue
    \/ QueueTaskShutdownBranch /\ UNCHANGED othersOfQueue
    \/ QueueRunReturns /\ UNCHANGED othersOfQueue

SpecQueue == Init /\ [][NextQueue]_vars

\* The supervisor with any configuration, and the tasks it spawns.
InitSupervisor ==
    /\ InitHandler /\ InitWatcher
    /\ RedeliveryIdle /\ InitQueue /\ InitService /\ RangeIdle
    /\ DispatchIdle /\ ConstructionIdle

othersOfService == <<handlerVars, watcherVars, redeliveryVars, queueVars, rangeVars,
                     dispatchVars, constructionVars>>

NextService ==
    \/ IgniteAdvance /\ UNCHANGED othersOfService
    \/ IgniteSkipDisabled /\ UNCHANGED othersOfService
    \/ IgniteEvmProvider /\ UNCHANGED othersOfService
    \/ IgniteContract /\ UNCHANGED othersOfService
    \/ IgniteTxQueue /\ UNCHANGED othersOfService
    \/ IgniteSubstrateNode /\ UNCHANGED othersOfService
    \/ IgnitePallet /\ UNCHANGED othersOfService
    \/ Shutdown /\ UNCHANGED othersOfService
    \/ \E t \in TaskIds : TaskBegins(t) /\ UNCHANGED othersOfService
    \/ \E t \in TaskIds : TaskResolves(t) /\ UNCHANGED othersOfService
    \/ \E t \in TaskIds : TaskReturns(t) /\ UNCHANGED othersOfService
    \/ \E t \in TaskIds : TaskShutdownBranch(t) /\ UNCHANGED othersOfService

SpecService == InitSupervisor /\ [][NextService]_vars

\* The same with the scheduling of the runtime: a task whose select! has a
\* ready branch is polled and takes it.  Nothing is assumed of the
\* operations a task is suspended in: they may never resolve.
SpecServiceLive ==
    /\ SpecService
    /\ \A t \in TaskIds :
          WF_vars(TaskShutdownBranch(t) /\ UNCHANGED othersOfService)

\* The range query of the leaves API, with any query.
InitRangeOnly ==
    /\ InitHandler /\ InitWatcher
    /\ RedeliveryIdle /\ InitQueue /\ ServiceIdle /\ InitRange
    /\ DispatchIdle /\ ConstructionIdle

NextRange ==
    Convert /\ UNCHANGED <<handlerVars, watcherVars, redeliveryVars,
                           queueVars, serviceVars, dispatchVars,
                           constructionVars>>

SpecRange == InitRangeOnly /\ [][NextRange]_vars

\* The handler behind one dispatcher, which asks can_handle_events about an
\* event and hands the event to handle_event whatever the answer was.
MaxDispatched == 2
othersOfDispatch ==
    <<watcherVars, redeliveryVars, queueVars, serviceVars, rangeVars,
      constructionVars>>

NextDispatch ==
    \/ pc[WatcherTask] = "idle" /\ CanHandle /\ UNCHANGED othersOfDispatch
    \/ /\ calls < MaxDispatched
       /\ Call(WatcherTask)
       /\ UNCHANGED <<othersOfDispatch, dispatchVars>>
    \/ \E e \in NewCommitmentEvents :
          /\ canHandle # <<>> /\ Variant(e) = canHandle[1]
          /\ Acquire(WatcherTask, e)
          /\ UNCHANGED <<othersOfDispatch, dispatchVars>>
    \/ \E e \in OtherEvents :
          /\ canHandle # <<>> /\ Variant(e) = canHandle[1]
          /\ LogOnly(WatcherTask, e)
          /\ UNCHANGED <<othersOfDispatch, dispatchVars>>
    \/ QueryFails(WatcherTask) /\ UNCHANGED <<othersOfDispatch, dispatchVars>>
    \/ QueryAnswers(WatcherTask) /\ UNCHANGED <<othersOfDispatch, dispatchVars>>

SpecDispatch == Init /\ [][NextDispatch]_vars

\* VAnchorLeavesHandler::new on a store that holds any leaves.
othersOfConstruction ==
    <<watcherVars, redeliveryVars, queueVars, serviceVars, rangeVars,
      dispatchVars>>

InitNew ==
    /\ InitConstruction /\ InitWatcher
    /\ RedeliveryIdle /\ InitQueue /\ ServiceIdle /\ RangeIdle
    /\ DispatchIdle /\ ConstructionIdle

NextNew ==
    \/ NewFails /\ UNCHANGED othersOfConstruction
    \/ NewBuilds /\ UNCHANGED othersOfConstruction

SpecNew == InitNew /\ [][NextNew]_vars

\* ----------------------------------------------------------------- claims

\* No call holds the tree: the tree and the store are as the call that
\* returned last left them.
Quiescent == last # <<>> /\ holders = {}

\* C1: an odd-indexed NewCommitment whose root is_known_root answers false
\* for returns InvalidMerkleRoot(leaf_index), leaves the node map of the tree
\* as it was before the call, and writes nothing to the store.
C1_RejectedOddRestoresTree ==
    Quiescent =>
        LET c == last[1] IN
        (c.ev.leaf_index % 2 = 1 /\ c.reply = "false") =>
            /\ c.res = InvalidMerkleRootError(c.ev.leaf_index)
            /\ mt = c.snap
            /\ c.writes = {}
            /\ leaves = c.leaves
            /\ lastDepositBlock = c.block
            /\ storedEvents = c.events

\* A rejected odd leaf on a tree that already held leaves.
C1_Witness ==
    /\ Quiescent
    /\ last[1].ev.leaf_index % 2 = 1
    /\ last[1].reply = "false"
    /\ last[1].res = InvalidMerkleRootError(last[1].ev.leaf_index)
    /\ last[1].snap # EmptyMap
    /\ mt = last[1].snap

\* C2: after a call that returned Ok for an odd-indexed event of block B,
\* the root of the in-memory tree is one is_known_root answers true for at B.
C2_AcceptedOddRootIsKnown ==
    Quiescent =>
        LET c == last[1] IN
        (c.ev.leaf_index % 2 = 1 /\ c.res = Ok) =>
            IsKnownRoot(Root(mt), c.ev.block)

\* An odd leaf was accepted.
C2_Witness ==
    /\ Quiescent
    /\ last[1].ev.leaf_index % 2 = 1
    /\ last[1].res = Ok
    /\ last[1].reply = "true"

\* C3: the leaf indices persisted in the store are a gap-free prefix
\* {0, ..., n-1}.
C3_PersistedLeavesGapFree ==
    DOMAIN leaves = 0..(Cardinality(DOMAIN leaves) - 1)

\* C4: whenever handle_event returns an error, the in-memory tree equals the
\* tree as it was before that call.
C4_ErrorRestoresTree ==
    Quiescent => (last[1].res # Ok => mt = last[1].snap)

\* C5: while no call is in progress, a handler built anew from the store has
\* the root of the running handler's tree.
C5_RestartRebuildsRoot ==
    (\A p \in Callers : pc[p] = "idle") =>
        Root(NewHandlerTree(leaves)) = Root(mt)

\* C6: when NewCommitment(2k, C) was delivered and accepted, and
\* NewCommitment(2k+1, C') delivered next is rejected with InvalidMerkleRoot,
\* the store holds leaf 2k and leaf 2k+1 only as it held them before the pair.
C6_RejectedPairNotPersisted ==
    (Quiescent /\ prev # <<>>) =>
        LET even == prev[1]
            odd == last[1]
        IN (/\ even.ev.leaf_index % 2 = 0
            /\ even.res = Ok
            /\ odd.ev.leaf_index = even.ev.leaf_index + 1
            /\ odd.res = InvalidMerkleRootError(odd.ev.leaf_index)) =>
               \A i \in {even.ev.leaf_index, odd.ev.leaf_index} :
                   i \in DOMAIN leaves =>
                       (i \in DOMAIN even.leaves /\ leaves[i] = even.leaves[i])

\* C7: the persisted last-deposit-block is the largest block number of the
\* events handle_event accepted (and so never decreases).
C7_LastBlockIsMaxAccepted ==
    lastDepositBlock =
        IF acceptedBlocks = {} THEN <<>> ELSE <<Max(acceptedBlocks)>>

\* C8: delivering again an event that was accepted before returns Ok and
\* leaves the in-memory root, the persisted leaves and the last-deposit-block
\* as they were.  Stated for the replays in which no contract call and no
\* store write fails, in the replay and in the call before it.
C8_ReplayIsNoOp ==
    (Quiescent /\ prev # <<>>) =>
        LET c == last[1] IN
        (/\ EventRecord(c.ev) \in c.events
         /\ c.res \in {Ok, InvalidMerkleRootError(c.ev.leaf_index)}
         /\ prev[1].res \in {Ok, InvalidMerkleRootError(prev[1].ev.leaf_index)}) =>
            /\ c.res = Ok
            /\ Root(mt) = Root(c.snap)
            /\ leaves = c.leaves
            /\ lastDepositBlock = c.block

\* C9: the cursor of the watcher never reaches the block of an event whose
\* handler call failed (and that was not handled since).
C9_CursorBehindFailedEvents ==
    \A e \in failed : cursor < e.block

\* C10: no two executions of handle_event overlap: while a call awaits
\* is_known_root it alone holds the tree, and the tree is its snapshot plus
\* its own leaf, with the root it sent to the contract.
C10_CallsDoNotOverlap ==
    /\ Cardinality(holders) <= 1
    /\ \A p \in Callers :
          pc[p] = "querying" =>
              /\ holders = {p}
              /\ LET e == ev[p][1] IN
                 mt = InsertBatch(snap[p][1],
                        [i \in {e.leaf_index} |-> FromBeBytesModOrder(e.commitment)])
              /\ Root(mt) = rootSent[p][1]

\* One call awaits the contract while another waits for the lock.
C10_Witness ==
    \E p, q \in Callers : pc[p] = "querying" /\ pc[q] = "locking"

\* C11: the payloads of one queue key are handed to the chain client in the
\* order they were enqueued, and a payload is handed over only when every
\* payload enqueued before it is confirmed or poison.
C11_SubmissionsInQueueOrder ==
    \A i \in 1..Len(submissions) :
        /\ \A j \in 1..i : submissions[j] <= submissions[i]
        /\ \A k \in 1..(submissions[i] - 1) : k \in confirmed \cup poison

\* The last payload is submitted again after a failed attempt, with a
\* payload confirmed and a payload poison before it.
C11_Witness ==
    /\ submissions = [i \in 1..MaxPayloads |-> i]
    /\ qpc = "Submitting"
    /\ attempts > 0
    /\ confirmed # {}
    /\ poison # {}

InQueue(p) == \E i \in 1..Len(queue) : queue[i] = p

\* C12, as claimed: every payload enqueued is in the store's queue or
\* confirmed on-chain.
C12_EnqueuedPresentOrConfirmed ==
    \A p \in 1..enq : InQueue(p) \/ p \in confirmed

\* C12, amended: every payload enqueued is in the store's queue, confirmed
\* on-chain, or classified as poison at the attempt ceiling; none leaves the
\* queue before it is confirmed or poison.
C12_EnqueuedPresentConfirmedOrPoison ==
    \A p \in 1..enq : InQueue(p) \/ p \in confirmed \/ p \in poison

\* After a crash a confirmed payload has left the queue, another is poison,
\* and one is still queued.
C12_Witness ==
    /\ crashes > 0
    /\ \E p \in 1..enq : ~InQueue(p) /\ p \in confirmed /\ p \notin poison
    /\ \E p \in 1..enq : ~InQueue(p) /\ p \in poison /\ p \notin confirmed
    /\ \E p \in 1..enq : InQueue(p)

AllStopped == \A t \in 1..Len(tasks) : tasks[t].state = "Stopped"

\* C13: once the shutdown signal is broadcast, every task the supervisor
\* spawned stops, whatever operation it is suspended in.
C13_ShutdownStopsEveryTask == shutdown ~> AllStopped

\* Watcher tasks and queue tasks were spawned and all have stopped.
C13_Witness ==
    /\ shutdown
    /\ AllStopped
    /\ \E t \in 1..Len(tasks) : tasks[t].kind = "TxQueue"
    /\ \E t \in 1..Len(tasks) : tasks[t].kind \in WatcherKinds

\* C14: a queue task that ends on shutdown was not in a submission: run()
\* was between two items when its task ended.
C14_ShutdownLetsSubmissionResolve ==
    qpc = "Stopped" => dropped[1] \notin {"Submitting", "Confirming"}

QueueTasksOf(c) ==
    {t \in 1..Len(tasks) : tasks[t].kind = "TxQueue" /\ tasks[t].chain = c}

\* C16: when ignite has returned Ok, every enabled chain (EVM chain or
\* Substrate node) has exactly one transaction queue task and a disabled
\* chain has none.
C16_OneQueuePerEnabledChain ==
    ignite.at = "Ok" =>
        \A c \in Chains :
            Cardinality(QueueTasksOf(c)) = IF config[c].enabled THEN 1 ELSE 0

\* C17: the range of a query is start..end with 0 for a missing start and
\* u32::MAX for a missing end; it yields exactly the x with
\* start <= x < end, and nothing when start >= end.
C17_RangeOfQuery ==
    range # <<>> =>
        LET start == IF query.start.kind = "value" THEN query.start.v ELSE 0
            end == IF query.end.kind = "value" THEN query.end.v ELSE U32Max
        IN /\ range[1] = [start |-> start, end |-> end]
           /\ RangeItems(range[1]) = {x \in U32 : start <= x /\ x < end}
           /\ start >= end => RangeItems(range[1]) = {}

\* A query with no start and a null end became 0..u32::MAX.
C17_Witness ==
    /\ range # <<>>
    /\ query.start.kind = "missing"
    /\ query.end.kind = "null"
    /\ range[1] = [start |-> 0, end |-> U32Max]
    /\ RangeItems(range[1]) = U32 \ {U32Max}

\* C18: a handle_event call writes the leaf, the last-deposit-block and the
\* event record of its event to the store, or none of the three.
C18_StoreWritesAllOrNone ==
    Quiescent => last[1].writes \in {{}, {"leaf", "block", "event"}}

\* C19: for an even leaf_index handle_event asks the contract nothing and
\* leaves the leaf in the tree; it fails only when a store write or the
\* serialization fails, and otherwise returns Ok with the leaf, the block
\* number of the event and the event record persisted.
C19_EvenLeafAcceptedUnchecked ==
    Quiescent =>
        LET c == last[1]
            e == c.ev
        IN e.leaf_index % 2 = 0 =>
            /\ c.reply = "none"
            /\ mt = InsertBatch(c.snap,
                     [i \in {e.leaf_index} |-> FromBeBytesModOrder(e.commitment)])
            /\ c.res \in {Ok, StoreError, SerdeError}
            /\ c.res = Ok =>
                  /\ c.writes = {"leaf", "block", "event"}
                  /\ e.leaf_index \in DOMAIN leaves
                  /\ leaves[e.leaf_index] = e.commitment
                  /\ lastDepositBlock = <<e.block>>
                  /\ EventRecord(e) \in storedEvents

\* An even leaf was accepted although the root of the tree it leaves is none
\* the contract knows.
C19_Witness ==
    /\ Quiescent
    /\ last[1].ev.leaf_index % 2 = 0
    /\ last[1].ev.leaf_index > 0
    /\ last[1].res = Ok
    /\ last[1].reply = "none"
    /\ ~IsKnownRoot(Root(mt), last[1].ev.block)

\* C20: a call that returns for an odd event rejected with InvalidMerkleRoot
\* since the last accepted event, and whose is_known_root call is answered,
\* fails with InvalidMerkleRoot(leaf_index) again and leaves the tree as it
\* found it and the store as it was.
C20_RedeliveryFailsAgain ==
    [][((last' # last \/ prev' # prev)
            /\ last'[1].ev \in rejected
            /\ last'[1].reply # "error")
        => /\ last'[1].res = InvalidMerkleRootError(last'[1].ev.leaf_index)
           /\ mt' = last'[1].snap
           /\ leaves' = leaves
           /\ lastDepositBlock' = lastDepositBlock
           /\ storedEvents' = storedEvents]_vars

\* C21: can_handle_events returns true exactly for the NewCommitment
\* variant, and handle_event on an event of any other variant (edge
\* addition, edge update, nullifier, insertion, unknown) returns Ok and
\* leaves the in-memory tree, the persisted leaves, the last deposit block
\* and the stored events unchanged.
C21_OnlyNewCommitmentHandled ==
    /\ canHandle # <<>> =>
          (canHandle[2] <=> canHandle[1] = "NewCommitmentFilter")
    /\ Quiescent =>
          LET c == last[1] IN
          Variant(c.ev) # "NewCommitmentFilter" =>
              /\ c.res = Ok
              /\ mt = c.snap
              /\ c.writes = {}
              /\ leaves = c.leaves
              /\ lastDepositBlock = c.block
              /\ storedEvents = c.events

\* An insertion event declined by can_handle_events and still handed to
\* handle_event, on a tree and a store that already held a leaf.
C21_Witness ==
    /\ canHandle = <<"InsertionFilter", FALSE>>
    /\ Quiescent
    /\ Variant(last[1].ev) = "InsertionFilter"
    /\ last[1].res = Ok
    /\ leaves # EmptyMap
    /\ storedEvents # {}
    /\ mt # NewHandlerTree(EmptyMap)

WatcherTasksOf(c, i) ==
    {t \in 1..Len(tasks) :
        /\ tasks[t].kind \in WatcherKinds
        /\ tasks[t].chain = c
        /\ tasks[t].item = i}

\* C22: when ignite has returned Ok, a watcher task was spawned for every
\* contract and pallet whose events_watcher is enabled on an enabled chain,
\* and none for an item whose events_watcher is disabled or whose chain is
\* disabled.
C22_WatcherPerEnabledItem ==
    ignite.at = "Ok" =>
        \A c \in Chains : \A i \in 1..Len(config[c].items) :
            (WatcherTasksOf(c, i) # {}) <=>
                (config[c].enabled /\ config[c].items[i].events_watcher)

NonCanonical(stored) == {i \in DOMAIN stored : stored[i] >= FieldOrder}

\* C23 as stated: VAnchorLeavesHandler::new returns an error, and builds no
\* handler, whenever the store holds a leaf of the resource whose 32 bytes
\* are not a valid field element (a big-endian value not below the field
\* order).
C23_NonCanonicalLeafFailsNew ==
    (built # <<>> /\ NonCanonical(leaves) # {}) =>
        (built[1] # Ok /\ mt = EmptyMap)

\* C23, amended: new has no decode error for a stored leaf.  It fails only
\* with the error of reading the store, and then builds nothing; otherwise
\* it builds the handler, and a leaf whose value is not below the field
\* order is in the tree reduced modulo the field order, so the tree is the
\* one of the reduced leaves.
C23_NonCanonicalLeafReduced ==
    /\ built # <<>> /\ built[1] # Ok => built[1] = StoreError /\ mt = EmptyMap
    /\ built = <<Ok>> =>
          /\ \A i \in DOMAIN leaves :
                 mt[LastLevelIndex + i] = leaves[i] % FieldOrder
          /\ mt = NewTree([i \in DOMAIN leaves |-> leaves[i] % FieldOrder])

\* A handler built on a store with a leaf above the field order that does
\* not reduce to the empty leaf.
C23_Witness ==
    /\ built = <<Ok>>
    /\ \E i \in NonCanonical(leaves) : mt[LastLevelIndex + i] # EmptyLeaf
    /\ \E i \in NonCanonical(leaves) : mt[LastLevelIndex + i] # leaves[i]

\* The entries ignite goes through after the entry c: the later ones of its
\* loop, and every Substrate node when c is an EVM chain.
RemainingAfter(c) ==
    {d \in Chains :
        \/ config[d].family = config[c].family /\ d > c
        \/ config[c].family = "evm" /\ config[d].family = "substrate"}

====
